---- MODULE Spec2Model ----
(***************************************************************************)
(* The Session resource controller (index, show, create, upsert, patch,   *)
(* destroy) of server/src/api/session/session.controller.js and the       *)
(* ApiService HTTP wrapper that follows it in the same file.               *)
(*                                                                         *)
(* A request is a (req, res) pair handled by one promise chain.  The store *)
(* calls of a chain are asynchronous: a chain with two store calls (patch: *)
(* find then save, destroy: find then destroy) is two steps, and steps of  *)
(* different requests interleave.  Everything a chain runs between two     *)
(* store calls runs in one step.                                           *)
(*                                                                         *)
(* The Session model (../../conn/sqldb) and the fast-json-patch library    *)
(* are not part of the sources; their operators below follow the store     *)
(* interface and the JSON-Patch semantics the specification describes.     *)
(***************************************************************************)
EXTENDS Integers, Sequences, FiniteSets, TLC

VARIABLES store, nextId, req, gone, created, httpLog, apiResult

vars == <<store, nextId, req, gone, created, httpLog, apiResult>>

(* ------------------------------ bounds -------------------------------- *)

\* Largest identity of the model: identities are 0..MaxId, 0 being the falsy one.
MaxId == 1

\* Longest patch document (number of operations).
MaxPatchLen == 2

\* Number of distinct URL paths the client is called with.
MaxPath == 3

Ids == 0..MaxId

\* Values of the one caller-supplied field, `name` (they stand for strings).
Names == {10, 11}

\* Concurrent (req, res) pairs.
Reqs == {"r1", "r2"}

\* An absent property (undefined).
NoId == -1

NoRow == [_id |-> NoId, name |-> NoId]

Rows == [_id : Ids, name : Names]

\* JSON object bodies of create and upsert: `_id` may be absent.
Bodies == [_id : Ids \cup {NoId}, name : Names]

\* Operations of a patch document.
PatchOps ==
  {[op |-> "replace", path |-> "/name", value |-> v] : v \in Names}
  \cup {[op |-> "test", path |-> "/name", value |-> 10]}
  \cup {[op |-> "replace", path |-> "/_id", value |-> v] : v \in Ids}
  \cup {[op |-> "replace", path |-> "/nope", value |-> 0]}

RECURSIVE SeqsUpTo(_, _)
SeqsUpTo(S, n) ==
  IF n = 0 THEN {<<>>}
  ELSE LET shorter == SeqsUpTo(S, n - 1)
       IN  shorter \cup {Append(s, x) : s \in {t \in shorter : Len(t) = n - 1}, x \in S}

\* JSON array bodies of patch.
PatchBodies == SeqsUpTo(PatchOps, MaxPatchLen)

Max(a, b) == IF a >= b THEN a ELSE b

(* ------------------------- JavaScript values -------------------------- *)

Val(kind, row, rows, err) == [kind |-> kind, row |-> row, rows |-> rows, err |-> err]

EntV(row) == Val("entity", row, {}, "")
ListV(rows) == Val("list", NoRow, rows, "")
NullV == Val("null", NoRow, {}, "")
UndefinedV == Val("undefined", NoRow, {}, "")
BoolV(b) == Val(IF b THEN "true" ELSE "false", NoRow, {}, "")
ErrV(code) == Val("error", NoRow, {}, code)

\* if (x): objects, arrays (the empty one too) and true are truthy.
Truthy(v) == v.kind \in {"entity", "list", "true", "error"}

\* if (req.body._id): an absent `_id` and the number 0 are falsy.
TruthyId(i) == i # NoId /\ i # 0

(* ------------------------------- res ---------------------------------- *)

NewRes == [wire |-> <<>>, attempts |-> 0, errCalls |-> 0]

\* res.status(code).json(body), .send(body), .end(): the response goes on the
\* wire once; a call on a finished response throws and nothing more is sent.
send(res, code, body) ==
  IF Len(res.wire) > 0
    THEN [res EXCEPT !.attempts = @ + 1]
    ELSE [res EXCEPT !.attempts = @ + 1,
                     !.wire = <<[status |-> code, body |-> body]>>]

(* ------------------------ controller helpers -------------------------- *)

\* statusCode = statusCode || 200 (0 stands for an omitted argument);
\* if (entity) return res.status(statusCode).json(entity); return null
respondWithResult(res, statusCode, entity) ==
  IF Truthy(entity)
    THEN send(res, IF statusCode = 0 THEN 200 ELSE statusCode, entity)
    ELSE res

\* handleEntityNotFound with its test inverted.
handleEntityNotFoundInverted(res, entity) ==
  IF Truthy(entity)
    THEN [res |-> send(res, 404, UndefinedV), val |-> NullV]
    ELSE [res |-> res, val |-> entity]

\* if (!entity) { res.status(404).end(); return null } return entity
handleEntityNotFound(res, entity) ==
  IF ~Truthy(entity)
    THEN [res |-> send(res, 404, UndefinedV), val |-> NullV]
    ELSE [res |-> res, val |-> entity]

\* handleError with the default status of respondWithResult.
handleErrorOk(res, statusCode, err) ==
  send([res EXCEPT !.errCalls = @ + 1], IF statusCode = 0 THEN 200 ELSE statusCode, err)

\* statusCode = statusCode || 500; res.status(statusCode).send(err)
handleError(res, statusCode, err) ==
  send([res EXCEPT !.errCalls = @ + 1], IF statusCode = 0 THEN 500 ELSE statusCode, err)

\* if (req.body._id) Reflect.deleteProperty(req.body, '_id'), on an object body.
deleteId(body) ==
  IF TruthyId(body._id) THEN [body EXCEPT !._id = NoId] ELSE body

\* The same statement on a patch body: an array has no `_id` property, so
\* req.body._id is undefined and the array is left as it is.
deletePatchId(patches) == patches

(* ----------------------------- the store ------------------------------ *)

HasRow(s, k) == \E row \in s : row._id = k

RowOf(s, k) == CHOOSE row \in s : row._id = k

\* Session.findAll()
SessionFindAll(s) == ListV(s)

\* Session.find({ where: { _id: id } })
SessionFind(s, k) == IF HasRow(s, k) THEN EntV(RowOf(s, k)) ELSE NullV

\* Session.create(values): the identity is the one in values, else the next
\* store-assigned one; a taken identity is a constraint violation.
SessionCreate(s, n, values) ==
  LET identity == IF values._id # NoId THEN values._id ELSE n
      row == [_id |-> identity, name |-> values.name]
  IN  IF HasRow(s, identity)
        THEN [ok |-> FALSE, store |-> s, nextId |-> n, row |-> NoRow]
        ELSE [ok |-> TRUE, store |-> s \cup {row},
              nextId |-> Max(n, identity + 1), row |-> row]

\* Session.upsert(values, { where: { _id: id } }): the record at the identity is
\* created if absent and replaced if present; an `_id` among the values is
\* the identity the store writes.
SessionUpsert(s, n, values, id) ==
  LET identity == IF values._id # NoId THEN values._id ELSE id
      row == [_id |-> identity, name |-> values.name]
  IN  [created |-> ~HasRow(s, identity),
       store |-> {x \in s : x._id # identity} \cup {row},
       nextId |-> Max(n, identity + 1), row |-> row]

\* entity.save(): updates the row the entity was loaded from with the entity's
\* fields, `_id` included; no such row, no change; a taken identity is a
\* constraint violation.
EntitySave(s, n, entity, key) ==
  IF ~HasRow(s, key)
    THEN [ok |-> TRUE, store |-> s, nextId |-> n, row |-> NoRow]
    ELSE IF entity._id # key /\ HasRow(s, entity._id)
      THEN [ok |-> FALSE, store |-> s, nextId |-> n, row |-> NoRow]
      ELSE [ok |-> TRUE, store |-> (s \ {RowOf(s, key)}) \cup {entity},
            nextId |-> Max(n, entity._id + 1), row |-> entity]

\* entity.destroy()
EntityDestroy(s, key) == {x \in s : x._id # key}

(* ---------------------------- JSON Patch ------------------------------ *)

\* One operation, validated against the document as it is now.
ApplyOperation(doc, o) ==
  IF o.path = "/_id"
    THEN IF o.op = "replace"
           THEN [ok |-> TRUE, doc |-> [doc EXCEPT !._id = o.value]]
           ELSE [ok |-> doc._id = o.value, doc |-> doc]
  ELSE IF o.path = "/name"
    THEN IF o.op = "replace"
           THEN [ok |-> TRUE, doc |-> [doc EXCEPT !.name = o.value]]
           ELSE [ok |-> doc.name = o.value, doc |-> doc]
  ELSE [ok |-> FALSE, doc |-> doc]

\* jsonpatch.apply(entity, patches, true): the operations in order, in place;
\* the first one that fails throws and the ones before it stay applied to the
\* in-memory document.
RECURSIVE ApplyPatch(_, _)
ApplyPatch(doc, patches) ==
  IF patches = <<>> THEN [ok |-> TRUE, doc |-> doc]
  ELSE LET r == ApplyOperation(doc, Head(patches))
       IN  IF r.ok THEN ApplyPatch(r.doc, Tail(patches))
           ELSE [ok |-> FALSE, doc |-> doc]

(* ------------------------------ requests ------------------------------ *)

\* One (req, res) pair: where its chain stands (pc), the operation and the path
\* parameter id, the entity the chain holds, the response object, and, for the
\* properties, how the request ended (outcome) and the row it persisted (wrote).
Slot(pc, op, id, entity, res, outcome, wrote) ==
  [pc |-> pc, op |-> op, id |-> id, entity |-> entity,
   res |-> res, outcome |-> outcome, wrote |-> wrote]

IdleSlot == Slot("idle", "none", NoId, NoRow, NewRes, "none", NoRow)

Done(op, id, res, outcome, wrote) ==
  Slot("done", op, id, NoRow, res, outcome, wrote)

\* A (req, res) pair is free before its request and after its response.
Free(r) == req[r].pc \in {"idle", "done"}

\* An arriving request takes the first free pair (the pairs are interchangeable).
Arrives(r) == Free(r) /\ (r = "r2" => ~Free("r1"))

\* The arriving request's pair becomes `slot`; the pairs whose response has been
\* sent are dropped.
Take(r, slot) ==
  [q \in Reqs |-> IF q = r THEN slot
                  ELSE IF req[q].pc = "done" THEN IdleSlot ELSE req[q]]

Init ==
  /\ store = {}
  /\ nextId = 1
  /\ req = [r \in Reqs |-> IdleSlot]
  /\ gone = {}
  /\ created = [i \in Ids |-> NoRow]
  /\ httpLog = <<>>
  /\ apiResult = [state |-> "none", value |-> [kind |-> "none", data |-> 0]]

apiVars == <<httpLog, apiResult>>

\* Gets a list of Sessions
index(r, fail) ==
  /\ Arrives(r)
  /\ req' = Take(r,
       IF fail
         THEN Done("index", NoId, handleError(NewRes, 0, ErrV("store")), "storefail", NoRow)
         ELSE Done("index", NoId, respondWithResult(NewRes, 0, SessionFindAll(store)),
                   "ok", NoRow))
  /\ UNCHANGED <<store, nextId, gone, created, apiVars>>

\* Gets a single Session from the DB
show(r, id, fail) ==
  /\ Arrives(r)
  /\ req' = Take(r,
       IF fail
         THEN Done("show", id, handleError(NewRes, 0, ErrV("store")), "storefail", NoRow)
         ELSE LET found == handleEntityNotFound(NewRes, SessionFind(store, id))
              IN  Done("show", id, respondWithResult(found.res, 0, found.val),
                       IF HasRow(store, id) THEN "ok" ELSE "notfound", NoRow))
  /\ UNCHANGED <<store, nextId, gone, created, apiVars>>

\* Creates a new Session in the DB
create(r, body, fail) ==
  /\ Arrives(r)
  /\ body._id = NoId => nextId <= MaxId
  /\ LET c == SessionCreate(store, nextId, body)
     IN  IF fail \/ ~c.ok
           THEN /\ req' = Take(r,
                     Done("create", NoId, handleError(NewRes, 0, ErrV("store")),
                          "storefail", NoRow))
                /\ UNCHANGED <<store, nextId, gone, created>>
           ELSE /\ store' = c.store
                /\ nextId' = c.nextId
                /\ req' = Take(r,
                     Done("create", NoId, respondWithResult(NewRes, 201, EntV(c.row)),
                          "ok", c.row))
                /\ gone' = gone \ {c.row._id}
                /\ created' = [created EXCEPT ![c.row._id] =
                                 IF body._id = NoId THEN c.row ELSE NoRow]
  /\ UNCHANGED apiVars

\* Upserts the given Session in the DB at the specified ID
upsert(r, id, body, ret, fail) ==
  /\ Arrives(r)
  /\ LET values == deleteId(body)
         u == SessionUpsert(store, nextId, values, id)
         resolved == IF ret = "record" THEN EntV(u.row) ELSE BoolV(u.created)
     IN  IF fail
           THEN /\ req' = Take(r,
                     Done("upsert", id, handleError(NewRes, 0, ErrV("store")),
                          "storefail", NoRow))
                /\ UNCHANGED <<store, nextId, gone, created>>
           ELSE /\ store' = u.store
                /\ nextId' = u.nextId
                /\ req' = Take(r,
                     Done("upsert", id, respondWithResult(NewRes, 0, resolved),
                          "ok", u.row))
                /\ gone' = gone \ {id}
                /\ created' = [created EXCEPT ![id] = NoRow]
  /\ UNCHANGED apiVars

\* patchUpdates whose catch does not return: save is called all the same.
patchUpdatesNoReturn(patches, entity) ==
  IF entity.kind # "entity"
    THEN [save |-> FALSE, err |-> ErrV("type"), doc |-> NoRow]
    ELSE [save |-> TRUE, err |-> NullV, doc |-> ApplyPatch(entity.row, patches).doc]

\* try { jsonpatch.apply(entity, patches, true) } catch (err) { return
\* Promise.reject(err) } return entity.save(): on null the apply or the save
\* throws a TypeError, which rejects the chain as well.
patchUpdates(patches, entity) ==
  IF entity.kind # "entity"
    THEN [save |-> FALSE, err |-> ErrV("type"), doc |-> NoRow]
    ELSE LET a == ApplyPatch(entity.row, patches)
         IN  IF a.ok THEN [save |-> TRUE, err |-> NullV, doc |-> a.doc]
             ELSE [save |-> FALSE, err |-> ErrV("patch"), doc |-> a.doc]

\* Updates an existing Session in the DB: from the request to the call of save.
patch(r, id, body, fail) ==
  /\ Arrives(r)
  /\ LET patches == deletePatchId(body)
     IN  IF fail
           THEN req' = Take(r,
                  Done("patch", id, handleError(NewRes, 0, ErrV("store")),
                       "storefail", NoRow))
           ELSE LET found == handleEntityNotFound(NewRes, SessionFind(store, id))
                    p == patchUpdates(patches, found.val)
                    outcome == IF ~HasRow(store, id) THEN "notfound"
                               ELSE IF ApplyPatch(RowOf(store, id), body).ok THEN "ok"
                               ELSE "invalid"
                IN  req' = Take(r,
                      IF p.save
                        THEN Slot("saving", "patch", id, p.doc, found.res, outcome, NoRow)
                        ELSE Done("patch", id, handleError(found.res, 0, p.err),
                                  outcome, NoRow))
  /\ created' = [created EXCEPT ![id] = NoRow]
  /\ UNCHANGED <<store, nextId, gone, apiVars>>

\* A save that settles without writing the row.
patchSaveNoWrite(r, fail) ==
  /\ req[r].pc = "saving"
  /\ LET q == req[r]
     IN  req' = [req EXCEPT ![r] =
           [q EXCEPT !.pc = "done", !.entity = NoRow,
                     !.res = IF fail THEN handleError(q.res, 0, ErrV("store"))
                             ELSE respondWithResult(q.res, 0, EntV(q.entity)),
                     !.outcome = IF fail THEN "storefail" ELSE q.outcome]]
  /\ created' = [created EXCEPT ![req[r].id] = NoRow]
  /\ UNCHANGED <<store, nextId, gone, apiVars>>

\* entity.save() settles and the chain ends: respondWithResult or handleError.
patchSave(r, fail) ==
  /\ req[r].pc = "saving"
  /\ LET q == req[r]
         sv == EntitySave(store, nextId, q.entity, q.id)
     IN  IF fail \/ ~sv.ok
           THEN /\ req' = [req EXCEPT ![r] =
                     [q EXCEPT !.pc = "done", !.entity = NoRow,
                               !.res = handleError(q.res, 0, ErrV("store")),
                               !.outcome = "storefail"]]
                /\ UNCHANGED <<store, nextId>>
           ELSE /\ store' = sv.store
                /\ nextId' = sv.nextId
                /\ req' = [req EXCEPT ![r] =
                     [q EXCEPT !.pc = "done", !.entity = NoRow,
                               !.res = respondWithResult(q.res, 0, EntV(q.entity)),
                               !.wrote = sv.row]]
  /\ created' = [created EXCEPT ![req[r].id] = NoRow]
  /\ UNCHANGED <<gone, apiVars>>

\* Deletes a Session from the DB: from the request to the call of destroy;
\* removeEntity does nothing on null.
destroy(r, id, fail) ==
  /\ Arrives(r)
  /\ IF fail
       THEN req' = Take(r,
              Done("destroy", id, handleError(NewRes, 0, ErrV("store")),
                   "storefail", NoRow))
       ELSE LET found == handleEntityNotFound(NewRes, SessionFind(store, id))
            IN  req' = Take(r,
                  IF Truthy(found.val)
                    THEN Slot("destroying", "destroy", id, found.val.row, found.res, "ok", NoRow)
                    ELSE Done("destroy", id, found.res, "notfound", NoRow))
  /\ created' = [created EXCEPT ![id] = NoRow]
  /\ UNCHANGED <<store, nextId, gone, apiVars>>

\* entity.destroy().then(() => { res.status(204).end() }), or handleError.
removeEntity(r, fail) ==
  /\ req[r].pc = "destroying"
  /\ LET q == req[r]
     IN  IF fail
           THEN /\ req' = [req EXCEPT ![r] =
                     Done("destroy", q.id, handleError(q.res, 0, ErrV("store")),
                          "storefail", NoRow)]
                /\ UNCHANGED <<store, gone>>
           ELSE /\ store' = EntityDestroy(store, q.id)
                /\ gone' = gone \cup {q.id}
                /\ req' = [req EXCEPT ![r] =
                     Done("destroy", q.id, send(q.res, 204, UndefinedV), "ok", NoRow)]
  /\ created' = [created EXCEPT ![req[r].id] = NoRow]
  /\ UNCHANGED <<nextId, apiVars>>

Next ==
  \/ \E r \in Reqs, fail \in BOOLEAN : index(r, fail)
  \/ \E r \in Reqs, id \in Ids, fail \in BOOLEAN : show(r, id, fail)
  \/ \E r \in Reqs, body \in Bodies, fail \in BOOLEAN : create(r, body, fail)
  \/ \E r \in Reqs, id \in Ids, body \in Bodies, ret \in {"record", "created"},
        fail \in BOOLEAN : upsert(r, id, body, ret, fail)
  \/ \E r \in Reqs, id \in Ids, fail \in BOOLEAN :
        \* a find that fails ends the request before the body is looked at
        \E body \in (IF fail THEN {<<>>} ELSE PatchBodies) : patch(r, id, body, fail)
  \/ \E r \in Reqs, fail \in BOOLEAN : patchSave(r, fail)
  \/ \E r \in Reqs, id \in Ids, fail \in BOOLEAN : destroy(r, id, fail)
  \/ \E r \in Reqs, fail \in BOOLEAN : removeEntity(r, fail)

Spec == Init /\ [][Next]_vars

(* ----------------------------- ApiService ----------------------------- *)

\* this.apiUrl = this.appSetting.API_SERVER
apiUrl == "API_SERVER"

Paths == 1..MaxPath

\* JSON documents exchanged with the server (bodies, query parameters, payloads).
Docs == {20, 21, 22}

\* What the transport reports for one request: the decoded body of a 2xx
\* response, or an HttpErrorResponse wrapping the server's error payload.
Transports ==
  {[ok |-> TRUE, status |-> 200, error |-> [kind |-> "none", data |-> 0],
    body |-> [kind |-> "json", data |-> d]] : d \in Docs}
  \cup {[ok |-> FALSE, status |-> s, error |-> [kind |-> "payload", data |-> d],
         body |-> [kind |-> "none", data |-> 0]] : s \in {404, 500}, d \in Docs}

\* JSON.stringify(body)
stringify(body) == [kind |-> "string", data |-> body]

NoBody == [kind |-> "none", data |-> 0]

\* formatErrors rethrowing the transport error still wrapped.
formatErrorsWrapped(error) ==
  [state |-> "failed", value |-> [kind |-> "HttpErrorResponse", data |-> error.error.data]]

\* return throwError(error.error)
formatErrors(error) == [state |-> "failed", value |-> error.error]

\* this.http.<method>(url, ...).pipe(catchError(this.formatErrors)), subscribed once.
call(method, path, body, params, t) ==
  /\ httpLog' = <<[method |-> method, url |-> <<apiUrl, path>>, body |-> body,
                   params |-> params]>>
  /\ apiResult' = IF t.ok THEN [state |-> "resolved", value |-> t.body]
                  ELSE formatErrors(t)
  /\ UNCHANGED <<store, nextId, req, gone, created>>

get(path, params, t) == call("GET", path, NoBody, [kind |-> "params", data |-> params], t)

put(path, body, t) == call("PUT", path, stringify(body), NoBody, t)

post(path, body, t) == call("POST", path, stringify(body), NoBody, t)

delete(path, t) == call("DELETE", path, NoBody, NoBody, t)

NextApi ==
  \/ \E path \in Paths, params \in Docs, t \in Transports : get(path, params, t)
  \/ \E path \in Paths, body \in Docs, t \in Transports : put(path, body, t)
  \/ \E path \in Paths, body \in Docs, t \in Transports : post(path, body, t)
  \/ \E path \in Paths, t \in Transports : delete(path, t)

SpecApi == Init /\ [][NextApi]_vars

(* ------------------------------ properties ---------------------------- *)

Finished(q) == q.pc = "done"

Response(code, body) == [status |-> code, body |-> body]

\* C1: the record an Upsert or a Patch persists has the path parameter id as its
\* identity, never a value taken from the body.
C1_IdentityFromPath ==
  \A r \in Reqs :
    (Finished(req[r]) /\ req[r].op \in {"upsert", "patch"} /\ req[r].wrote # NoRow)
      => req[r].wrote._id = req[r].id

\* C2: a Show, Patch or Destroy of an absent id answers 404 and does nothing more:
\* nothing persisted, handleError never invoked, no second send on the response.
C2_NotFoundQuiet ==
  \A r \in Reqs :
    (Finished(req[r]) /\ req[r].op \in {"show", "patch", "destroy"}
       /\ req[r].outcome = "notfound")
      => /\ req[r].res.wire = <<Response(404, UndefinedV)>>
         /\ req[r].res.errCalls = 0
         /\ req[r].res.attempts = 1
         /\ req[r].wrote = NoRow

\* C3: a Patch of an existing record with an operation that fails, at any
\* position, never reaches save, leaves the store as it was and answers with an
\* error.
C3_PatchRejectedWhole ==
  /\ [](\A r \in Reqs :
          (req[r].op = "patch" /\ req[r].outcome = "invalid")
            => /\ Finished(req[r])
               /\ req[r].wrote = NoRow
               /\ req[r].res.wire = <<Response(500, ErrV("patch"))>>)
  /\ [][\A r \in Reqs :
          (req'[r] # req[r] /\ req'[r].op = "patch" /\ req'[r].outcome = "invalid")
            => store' = store]_vars

C3_Witness ==
  \E r \in Reqs :
    /\ Finished(req[r]) /\ req[r].op = "patch" /\ req[r].outcome = "invalid"
    /\ HasRow(store, req[r].id)
    /\ req[r].res.wire = <<Response(500, ErrV("patch"))>>

\* C4: a successful Upsert(id, body) leaves in the store the record with identity
\* id and the fields of body, and creates or changes no record of another identity.
C4_UpsertAtPathId ==
  [][\A r \in Reqs, id \in Ids, body \in Bodies, ret \in {"record", "created"} :
       upsert(r, id, body, ret, FALSE)
         => /\ [_id |-> id, name |-> body.name] \in store'
            /\ {x \in store' : x._id # id} = {x \in store : x._id # id}]_vars

\* C5: every request sends exactly one response, and it is a representation (200,
\* 201), an empty 204, an empty 404 or a 500 carrying the error.
C5_ExactlyOneResponse ==
  \A r \in Reqs :
    Finished(req[r])
      => /\ Len(req[r].res.wire) = 1
         /\ LET w == req[r].res.wire[1]
            IN  \/ w.status \in {200, 201} /\ w.body.kind \in {"entity", "list", "true"}
                \/ w.status \in {204, 404} /\ w.body = UndefinedV
                \/ w.status = 500 /\ w.body.kind = "error"

ExpectedStatus(op, outcome) ==
  IF outcome = "notfound" THEN 404
  ELSE IF outcome \in {"invalid", "storefail"} THEN 500
  ELSE IF op = "create" THEN 201
  ELSE IF op = "destroy" THEN 204
  ELSE 200

\* C6: the status of a response follows from the operation and its outcome: 200
\* for Index, Show, Upsert and Patch, 201 for Create, 204 without body for
\* Destroy, 404 without body for not found, 500 with the error for a failed store
\* call or an invalid patch.
C6_StatusByOutcome ==
  \A r \in Reqs :
    (Finished(req[r]) /\ Len(req[r].res.wire) > 0)
      => LET w == req[r].res.wire[1]
         IN  /\ Len(req[r].res.wire) = 1
             /\ w.status = ExpectedStatus(req[r].op, req[r].outcome)
             /\ w.status \in {204, 404} => w.body = UndefinedV
             /\ w.status = 500 <=> w.body.kind = "error"

C6_Witness ==
  \E r, q \in Reqs :
    /\ Finished(req[r]) /\ req[r].op = "destroy" /\ req[r].outcome = "storefail"
    /\ req[r].res.wire = <<Response(500, ErrV("store"))>>
    /\ Finished(req[q]) /\ req[q].op = "patch" /\ req[q].outcome = "notfound"
    /\ req[q].res.wire = <<Response(404, UndefinedV)>>

\* C7: once Destroy(id) has answered 204, a Show(id) answers 404 as long as no
\* Create or Upsert of that id came in between.
C7_DestroyedStaysNotFound ==
  [][\A r \in Reqs, id \in Ids :
       (id \in gone /\ show(r, id, FALSE))
         => req'[r].res.wire = <<Response(404, UndefinedV)>>]_vars

\* C8: Show(id) returns the record Create returned with the store-assigned id,
\* as long as no Upsert, Patch or Destroy of that id came in between; Show and
\* Index leave the store as it is.
C8_CreateShowRoundTrip ==
  /\ [][\A r \in Reqs, id \in Ids :
          (created[id] # NoRow /\ show(r, id, FALSE))
            => req'[r].res.wire = <<Response(200, EntV(created[id]))>>]_vars
  /\ [][\A r \in Reqs :
          (req'[r] # req[r] /\ req'[r].op \in {"show", "index"})
            => (store' = store /\ nextId' = nextId)]_vars

C8_Witness ==
  \E r \in Reqs :
    /\ Finished(req[r]) /\ req[r].op = "show" /\ req[r].outcome = "ok"
    /\ created[req[r].id] # NoRow
    /\ req[r].res.wire = <<Response(200, EntV(created[req[r].id]))>>

\* C9: every ApiService call issues one HTTP request to apiUrl + path, resolves
\* with the decoded body when the transport succeeds and fails with the
\* unwrapped error payload when it fails.
C9_ApiContract ==
  [][\A t \in Transports :
       (\E path \in Paths :
          \/ \E params \in Docs : get(path, params, t)
          \/ \E body \in Docs : put(path, body, t) \/ post(path, body, t)
          \/ delete(path, t))
         => /\ Len(httpLog') = 1
            /\ httpLog'[1].url[1] = apiUrl
            /\ t.ok => apiResult' = [state |-> "resolved", value |-> t.body]
            /\ ~t.ok => apiResult' = [state |-> "failed", value |-> t.error]]_vars

C9_Witness ==
  /\ Len(httpLog) = 1
  /\ httpLog[1].method = "PUT"
  /\ httpLog[1].body.kind = "string"
  /\ apiResult.state = "failed"
  /\ apiResult.value.kind = "payload"

\* C10: the save of a Patch is unguarded: it succeeds and overwrites the stored
\* row with the entity the request computed from its own earlier find, whatever
\* another request stored in between.
C10_LastWriteWins ==
  [][\A r \in Reqs :
       (/\ req[r].pc = "saving"
        /\ HasRow(store, req[r].id)
        /\ req[r].entity._id = req[r].id
        /\ patchSave(r, FALSE))
         => /\ req[r].entity \in store'
            /\ req'[r].res.wire = <<Response(200, EntV(req[r].entity))>>]_vars

\* Two patches of one id both answered 200 and both saved, and the store holds
\* only the later one's record.
C10_LostUpdate ==
  /\ Finished(req["r1"]) /\ Finished(req["r2"])
  /\ req["r1"].op = "patch" /\ req["r2"].op = "patch"
  /\ req["r1"].id = req["r2"].id
  /\ req["r1"].wrote # NoRow /\ req["r2"].wrote # NoRow
  /\ req["r1"].wrote # req["r2"].wrote
  /\ \A r \in Reqs : Len(req[r].res.wire) = 1 /\ req[r].res.wire[1].status = 200
  /\ req["r1"].wrote \in store
  /\ req["r2"].wrote \notin store
====
